---- MODULE Spec2Model ----
(***************************************************************************)
(* Model of src/visualize_deps.py: the dependency-graph visualizer.        *)
(*                                                                         *)
(* One run of visualize(json_file) is a sequence of steps over the state   *)
(* below: load the JSON document, build the graph description `dot` (root  *)
(* node, then one pass over `dependencies`), save the DOT source, select   *)
(* the layout engine, invoke the renderer, report.                         *)
(*                                                                         *)
(* Python values are modelled as follows.  A dict is a record carrying the *)
(* tag t = "dict" and exactly the keys that are present, so that           *)
(* d.get(k, default) is Get(d, k, default).  A JSON value of another shape *)
(* carries another tag ("list", "null", "str").  A list is a sequence.  A  *)
(* multi-line string (a node label) is the sequence of its lines.          *)
(***************************************************************************)
EXTENDS Integers, Sequences, FiniteSets, TLC

VARIABLES
    SKIP_SYSTEM_LIBS, \* module configuration, line 8
    ENGINE,           \* module configuration, line 10
    json_file,        \* what the filesystem holds at the input path
    pc,               \* position of the run in visualize
    data,             \* the parsed document (line 33)
    dot,              \* the graphviz.Digraph: node and edge statements, engine
    dependencies,     \* line 48
    idx,              \* number of entries of `dependencies` the loop has consumed
    count,            \* line 49
    skipped,          \* line 50
    dep,              \* loop variable of line 54 / argument of get_security_color
    color,            \* line 65 / result of get_security_color
    gv_file,          \* dependency_graph.gv on disk
    image_file,       \* dependency_graph.<OUTPUT_FORMAT> on disk
    render_calls,     \* engines the external renderer was invoked with, in order
    out,              \* console output, one tag per print
    status            \* "running", "exit0" (normal return), "traceback" (unhandled exception)

vars == <<SKIP_SYSTEM_LIBS, ENGINE, json_file, pc, data, dot, dependencies, idx,
          count, skipped, dep, color, gv_file, image_file, render_calls, out, status>>

(***************************************************************************)
(* Bounds of the model                                                     *)
(***************************************************************************)
\* longest dependency list among the small, fully varied documents
MaxDeps == 2
\* the long documents hold SwitchThreshold - LargeSlack .. SwitchThreshold + LargeSlack
\* library entries and 0 .. LargeSlack system entries
LargeSlack == 1
\* longest `cves` list handed to get_security_color on its own
MaxCves == 2

(***************************************************************************)
(* Program constants                                                       *)
(***************************************************************************)
\* line 89: count > 100
SwitchThreshold == 100
\* line 9
OUTPUT_FORMAT == "png"
\* line 75
output_filename == "dependency_graph"
\* graphviz.Digraph() of line 40 is constructed without an engine argument
DigraphDefaultEngine == "dot"

(***************************************************************************)
(* Python helpers                                                          *)
(***************************************************************************)
\* dict.get(k, default)
Get(d, k, default) == IF k \in DOMAIN d THEN d[k] ELSE default

IsDict(v) == v.t = "dict"

(***************************************************************************)
(* Inputs: documents the input path can hold                               *)
(***************************************************************************)
\* a dict with no key besides its tag
EmptyDict == [t |-> "dict"]

\* the optional `name`, `type`, `version` keys of a dependency
NameParts == {EmptyDict} \cup {[t |-> "dict", name |-> n] : n \in {"a", "ROOT"}}
TypeParts == {EmptyDict} \cup {[t |-> "dict", type |-> ty] : ty \in {"system", "library"}}
VersionParts == {EmptyDict} \cup {[t |-> "dict", version |-> v] : v \in {"1.0"}}

\* Scenario C and D of the specification
ScenarioCDep ==
    [t |-> "dict", name |-> "left-pad", version |-> "1.0.0", type |-> "library",
     cves |-> <<[t |-> "dict", id |-> "SAFE"]>>]
ScenarioDDep ==
    [t |-> "dict", name |-> "a", cves |-> <<[t |-> "dict", id |-> "CVE-2023-1234"]>>]

\* a list entry that is a JSON string instead of an object
NonDictDep == [t |-> "str"]

SmallDeps ==
    {n @@ ty @@ v : n \in NameParts, ty \in TypeParts, v \in VersionParts}
    \cup {ScenarioCDep, ScenarioDDep, NonDictDep}

SeqsUpTo(S, n) == UNION {[1..k -> S] : k \in 0..n}

\* the value stored under "dependencies": a JSON array, or null
SmallDependencyValues ==
    {[t |-> "list", v |-> s] : s \in SeqsUpTo(SmallDeps, MaxDeps)} \cup {[t |-> "null"]}

ProjectParts == {EmptyDict} \cup {[t |-> "dict", project_name |-> "demo"]}

SmallDocuments ==
    {p @@ [dependencies |-> d] : p \in ProjectParts, d \in SmallDependencyValues}
    \cup ProjectParts          \* no "dependencies" key
    \cup {[t |-> "list"]}      \* well-formed JSON whose top level is an array

\* long documents: s system entries followed by n library entries with distinct names
LibDep(k) == [t |-> "dict", name |-> "lib" \o ToString(k), type |-> "library", version |-> "1.0"]
SysDep(k) == [t |-> "dict", name |-> "sys" \o ToString(k), type |-> "system"]
LargeList(s, n) == [k \in 1..(s + n) |-> IF k <= s THEN SysDep(k) ELSE LibDep(k - s)]
LargeDocuments ==
    {[t |-> "dict", project_name |-> "big",
      dependencies |-> [t |-> "list", v |-> LargeList(s, n)]] :
        s \in 0..LargeSlack,
        n \in (SwitchThreshold - LargeSlack)..(SwitchThreshold + LargeSlack)}

Documents == SmallDocuments \cup LargeDocuments

\* the input path: absent, present but not parsable, or holding a JSON value
Files ==
    {[state |-> "missing"], [state |-> "unparsable"]}
    \cup {[state |-> "json", value |-> d] : d \in Documents}

Engines == {"dot", "sfdp", "neato"}

\* arguments of get_security_color taken on its own
FindingIds == {"SAFE", "NOT-CHECKED", "CHECK-ERROR", "CVE-2023-1234", ""}
Findings ==
    {[t |-> "dict", id |-> f] : f \in FindingIds}
    \cup {[t |-> "dict", severity |-> "HIGH"]}                 \* no "id" key
CvesParts == {EmptyDict} \cup {[t |-> "dict", cves |-> c] : c \in SeqsUpTo(Findings, MaxCves)}
ColorDeps == {n @@ c : n \in {EmptyDict, [t |-> "dict", name |-> "a", type |-> "system"]},
                       c \in CvesParts}

(***************************************************************************)
(* Pure functions of the program                                           *)
(***************************************************************************)
\* get_security_color reading the last finding instead of the first
get_security_color_LastFinding(d) ==
    LET cves == Get(d, "cves", <<>>) IN
    IF cves = <<>> THEN "lightgrey"
    ELSE LET first_id == Get(cves[Len(cves)], "id", "") IN
         IF first_id = "SAFE" THEN "#90EE90"
         ELSE IF first_id = "NOT-CHECKED" THEN "lightgrey"
         ELSE IF first_id = "CHECK-ERROR" THEN "#FFE4B5"
         ELSE "#FF6347"

\* lines 12-20.  `not cves` is true of the empty list.
get_security_color(d) ==
    LET cves == Get(d, "cves", <<>>) IN
    IF cves = <<>> THEN "lightgrey"
    ELSE LET first_id == Get(cves[1], "id", "") IN
         IF first_id = "SAFE" THEN "#90EE90"
         ELSE IF first_id = "NOT-CHECKED" THEN "lightgrey"
         ELSE IF first_id = "CHECK-ERROR" THEN "#FFE4B5"
         ELSE "#FF6347"

\* lines 55-57: the three defaulted fields of a dependency
NameOf(d) == Get(d, "name", "unknown")
TypeOf(d) == Get(d, "type", "unknown")
VersionOf(d) == Get(d, "version", "?")

\* the filter of line 60 without its test of the flag
ShouldSkip_IgnoresFlag(flag, d) == Get(d, "type", "unknown") = "system"

\* line 60
ShouldSkip(flag, d) == flag /\ TypeOf(d) = "system"

\* line 64: f"{name}\n{version}\n({dep_type})", as its three lines
LabelOf(d) == <<NameOf(d), VersionOf(d), "(" \o TypeOf(d) \o ")">>

\* line 45
ProjectNameOf(doc) == Get(doc, "project_name", "Project")

\* line 46: dot.node('ROOT', project_name, shape='doubleoctagon', fillcolor='lightblue')
RootStatement(doc) ==
    [id |-> "ROOT", label |-> <<ProjectNameOf(doc)>>, shape |-> "doubleoctagon",
     fillcolor |-> "lightblue"]

\* line 68: dot.node(name, label, fillcolor=color)
NodeStatement(d) == [id |-> NameOf(d), label |-> LabelOf(d), fillcolor |-> get_security_color(d)]

\* line 69: dot.edge('ROOT', name)
EdgeStatement(d) == [tail |-> "ROOT", head |-> NameOf(d)]

\* line 48: data.get("dependencies", [])
DependenciesOf(doc) == Get(doc, "dependencies", [t |-> "list", v |-> <<>>])

\* lines 89-91: the engine of `dot` after the threshold test
SelectedEngine(current, configured, n) ==
    IF n > SwitchThreshold /\ configured = "dot" THEN "sfdp" ELSE current

(***************************************************************************)
(* The graph a graph description denotes.  `dot` keeps the statements in   *)
(* the order the calls of lines 46, 68 and 69 appended them; in the DOT    *)
(* language a node is identified by its id, so statements that repeat an   *)
(* id describe one node, whose attributes are those set last, while every  *)
(* edge statement of a (non-strict) digraph is an edge of its own.         *)
(***************************************************************************)
NodeIds(g) == {g.nodes[k].id : k \in DOMAIN g.nodes}

NonRootNodeIds(g) == NodeIds(g) \ {"ROOT"}

\* the value of attribute a of node n: that of the last statement of n that sets a
NodeAttr(g, n, a) ==
    LET ks == {k \in DOMAIN g.nodes : g.nodes[k].id = n /\ a \in DOMAIN g.nodes[k]}
        last == CHOOSE k \in ks : \A j \in ks : j <= k
    IN g.nodes[last][a]

Edges(g) == g.edges

(***************************************************************************)
(* State before visualize runs                                             *)
(***************************************************************************)
NoValue == [t |-> "none"]
NoDot == [nodes |-> <<>>, edges |-> <<>>, engine |-> "none"]
NoFile == [written |-> FALSE, nodes |-> <<>>, edges |-> <<>>]

Idle ==
    /\ data = NoValue
    /\ dot = NoDot
    /\ dependencies = NoValue
    /\ idx = 0
    /\ count = 0
    /\ skipped = 0
    /\ color = ""
    /\ gv_file = NoFile
    /\ image_file = [written |-> FALSE]
    /\ render_calls = <<>>
    /\ out = <<>>
    /\ status = "running"

\* lines 106-111: visualize(path) is about to run
Init ==
    /\ SKIP_SYSTEM_LIBS \in BOOLEAN
    /\ ENGINE \in Engines
    /\ json_file \in Files
    /\ pc = "start"
    /\ dep = NoValue
    /\ Idle

(***************************************************************************)
(* Steps of visualize                                                      *)
(***************************************************************************)
Emit(msgs) == out' = out \o msgs

\* the function returns (lines 27, 37, 104/end) and the script ends
Return == pc' = "done" /\ status' = "exit0"

\* an exception no handler catches leaves visualize and ends the script
Raise == pc' = "crashed" /\ status' = "traceback"

\* lines 23-27
InputNotFound ==
    /\ pc = "start"
    /\ json_file.state = "missing"
    /\ Emit(<<"start", "file_not_found">>)
    /\ Return
    /\ UNCHANGED <<SKIP_SYSTEM_LIBS, ENGINE, json_file, data, dot, dependencies, idx,
                   count, skipped, dep, color, gv_file, image_file, render_calls>>

\* the handler of lines 35-37 without its return: the run goes on with an empty document
JsonError_NoReturn ==
    /\ pc = "start"
    /\ json_file.state = "unparsable"
    /\ data' = EmptyDict
    /\ Emit(<<"start", "loading", "json_error">>)
    /\ pc' = "init"
    /\ UNCHANGED <<SKIP_SYSTEM_LIBS, ENGINE, json_file, dot, dependencies, idx,
                   count, skipped, dep, color, gv_file, image_file, render_calls, status>>

\* lines 23-37, json.load (or open) raises
JsonError ==
    /\ pc = "start"
    /\ json_file.state = "unparsable"
    /\ Emit(<<"start", "loading", "json_error">>)
    /\ Return
    /\ UNCHANGED <<SKIP_SYSTEM_LIBS, ENGINE, json_file, data, dot, dependencies, idx,
                   count, skipped, dep, color, gv_file, image_file, render_calls>>

\* lines 23-34
LoadJson ==
    /\ pc = "start"
    /\ json_file.state = "json"
    /\ data' = json_file.value
    /\ Emit(<<"start", "loading", "loaded">>)
    /\ pc' = "init"
    /\ UNCHANGED <<SKIP_SYSTEM_LIBS, ENGINE, json_file, dot, dependencies, idx,
                   count, skipped, dep, color, gv_file, image_file, render_calls, status>>

\* lines 40-52
InitGraph ==
    /\ pc = "init"
    /\ IsDict(data)
    /\ dot' = [nodes |-> <<RootStatement(data)>>, edges |-> <<>>,
               engine |-> DigraphDefaultEngine]
    /\ dependencies' = DependenciesOf(data)
    /\ count' = 0
    /\ skipped' = 0
    /\ idx' = 0
    /\ Emit(<<"building">>)
    /\ pc' = "build"
    /\ UNCHANGED <<SKIP_SYSTEM_LIBS, ENGINE, json_file, data, dep, color, gv_file,
                   image_file, render_calls, status>>

\* lines 40-45: data is not a dict, data.get raises AttributeError
InitGraphAttributeError ==
    /\ pc = "init"
    /\ ~IsDict(data)
    /\ dot' = [nodes |-> <<>>, edges |-> <<>>, engine |-> DigraphDefaultEngine]
    /\ Raise
    /\ UNCHANGED <<SKIP_SYSTEM_LIBS, ENGINE, json_file, data, dependencies, idx, count,
                   skipped, dep, color, gv_file, image_file, render_calls, out>>

\* line 54: `dependencies` is not iterable (null), the for statement raises TypeError
IterTypeError ==
    /\ pc = "build"
    /\ dependencies.t # "list"
    /\ Raise
    /\ UNCHANGED <<SKIP_SYSTEM_LIBS, ENGINE, json_file, data, dot, dependencies, idx,
                   count, skipped, dep, color, gv_file, image_file, render_calls, out>>

\* the entry the loop takes next
NextDep == dependencies.v[idx + 1]
HasNext == dependencies.t = "list" /\ idx < Len(dependencies.v)

\* lines 54-55: the entry is not a dict, dep.get raises AttributeError
DepAttributeError ==
    /\ pc = "build"
    /\ HasNext
    /\ ~IsDict(NextDep)
    /\ dep' = NextDep
    /\ idx' = idx + 1
    /\ Raise
    /\ UNCHANGED <<SKIP_SYSTEM_LIBS, ENGINE, json_file, data, dot, dependencies,
                   count, skipped, color, gv_file, image_file, render_calls, out>>

\* the skip branch of lines 60-62 without `skipped += 1`
BuildSkip_NoIncrement ==
    /\ pc = "build"
    /\ HasNext
    /\ IsDict(NextDep)
    /\ ShouldSkip(SKIP_SYSTEM_LIBS, NextDep)
    /\ dep' = NextDep
    /\ idx' = idx + 1
    /\ UNCHANGED <<SKIP_SYSTEM_LIBS, ENGINE, json_file, pc, data, dot, dependencies,
                   count, skipped, color, gv_file, image_file, render_calls, out, status>>

\* lines 54-62: the entry is filtered out
BuildSkip ==
    /\ pc = "build"
    /\ HasNext
    /\ IsDict(NextDep)
    /\ ShouldSkip(SKIP_SYSTEM_LIBS, NextDep)
    /\ dep' = NextDep
    /\ idx' = idx + 1
    /\ skipped' = skipped + 1
    /\ UNCHANGED <<SKIP_SYSTEM_LIBS, ENGINE, json_file, pc, data, dot, dependencies,
                   count, color, gv_file, image_file, render_calls, out, status>>

\* lines 54-60, 64-70: the entry is retained
BuildRetain ==
    /\ pc = "build"
    /\ HasNext
    /\ IsDict(NextDep)
    /\ ~ShouldSkip(SKIP_SYSTEM_LIBS, NextDep)
    /\ dep' = NextDep
    /\ idx' = idx + 1
    /\ color' = get_security_color(NextDep)
    /\ dot' = [dot EXCEPT !.nodes = Append(@, NodeStatement(NextDep)),
                          !.edges = Append(@, EdgeStatement(NextDep))]
    /\ count' = count + 1
    /\ UNCHANGED <<SKIP_SYSTEM_LIBS, ENGINE, json_file, pc, data, dependencies,
                   skipped, gv_file, image_file, render_calls, out, status>>

\* line 72: the loop is exhausted
BuildDone ==
    /\ pc = "build"
    /\ dependencies.t = "list"
    /\ idx = Len(dependencies.v)
    /\ Emit(<<"built">>)
    /\ pc' = "save"
    /\ UNCHANGED <<SKIP_SYSTEM_LIBS, ENGINE, json_file, data, dot, dependencies, idx,
                   count, skipped, dep, color, gv_file, image_file, render_calls, status>>

\* the save of lines 75-80 done only for a graph with at least one dependency node
SaveSource_OnlyNonEmpty ==
    /\ pc = "save"
    /\ gv_file' = IF count > 0
                  THEN [written |-> TRUE, nodes |-> dot.nodes, edges |-> dot.edges]
                  ELSE gv_file
    /\ Emit(<<"saving", "saved">>)
    /\ pc' = "engine"
    /\ UNCHANGED <<SKIP_SYSTEM_LIBS, ENGINE, json_file, data, dot, dependencies, idx,
                   count, skipped, dep, color, image_file, render_calls, status>>

\* lines 75-80: dot.save writes the whole DOT source
SaveSource ==
    /\ pc = "save"
    /\ gv_file' = [written |-> TRUE, nodes |-> dot.nodes, edges |-> dot.edges]
    /\ Emit(<<"saving", "saved">>)
    /\ pc' = "engine"
    /\ UNCHANGED <<SKIP_SYSTEM_LIBS, ENGINE, json_file, data, dot, dependencies, idx,
                   count, skipped, dep, color, image_file, render_calls, status>>

\* lines 83-91
SelectEngine ==
    /\ pc = "engine"
    /\ dot' = [dot EXCEPT !.engine = SelectedEngine(@, ENGINE, count)]
    /\ Emit(IF dot'.engine # dot.engine THEN <<"rendering", "switch_to_sfdp">>
                                         ELSE <<"rendering">>)
    /\ pc' = "render"
    /\ UNCHANGED <<SKIP_SYSTEM_LIBS, ENGINE, json_file, data, dependencies, idx,
                   count, skipped, dep, color, gv_file, image_file, render_calls, status>>

\* line 93: the external renderer is handed the graph, the format and the engine
Invoke == render_calls' = Append(render_calls,
              [engine |-> dot.engine, format |-> OUTPUT_FORMAT,
               nodes |-> dot.nodes, edges |-> dot.edges])

\* lines 93-96: the renderer succeeds
RenderOk ==
    /\ pc = "render"
    /\ Invoke
    /\ image_file' = [written |-> TRUE]
    /\ Emit(<<"finished", "file_created">>)
    /\ Return
    /\ UNCHANGED <<SKIP_SYSTEM_LIBS, ENGINE, json_file, data, dot, dependencies, idx,
                   count, skipped, dep, color, gv_file>>

\* lines 93, 98-101: graphviz.backend.ExecutableNotFound
RenderExecutableNotFound ==
    /\ pc = "render"
    /\ Invoke
    /\ Emit(<<"executable_not_found", "install_hint", "source_saved">>)
    /\ Return
    /\ UNCHANGED <<SKIP_SYSTEM_LIBS, ENGINE, json_file, data, dot, dependencies, idx,
                   count, skipped, dep, color, gv_file, image_file>>

\* the render call without the handler of lines 102-104: the exception leaves visualize
RenderError_Propagates ==
    /\ pc = "render"
    /\ Invoke
    /\ Raise
    /\ UNCHANGED <<SKIP_SYSTEM_LIBS, ENGINE, json_file, data, dot, dependencies, idx,
                   count, skipped, dep, color, gv_file, image_file, out>>

\* lines 93, 102-104: any other exception of the render call
RenderError ==
    /\ pc = "render"
    /\ Invoke
    /\ Emit(<<"render_error", "view_online_tip">>)
    /\ Return
    /\ UNCHANGED <<SKIP_SYSTEM_LIBS, ENGINE, json_file, data, dot, dependencies, idx,
                   count, skipped, dep, color, gv_file, image_file>>

Next ==
    \/ InputNotFound
    \/ JsonError
    \/ LoadJson
    \/ InitGraph
    \/ InitGraphAttributeError
    \/ IterTypeError
    \/ DepAttributeError
    \/ BuildSkip
    \/ BuildRetain
    \/ BuildDone
    \/ SaveSource
    \/ SelectEngine
    \/ RenderOk
    \/ RenderExecutableNotFound
    \/ RenderError

Spec == Init /\ [][Next]_vars

(***************************************************************************)
(* get_security_color on its own: one call on a drawn argument             *)
(***************************************************************************)
InitColor ==
    /\ SKIP_SYSTEM_LIBS = TRUE
    /\ ENGINE = "dot"
    /\ json_file = [state |-> "missing"]
    /\ pc = "classify"
    /\ dep \in ColorDeps
    /\ Idle

\* line 65: color = get_security_color(dep)
Classify ==
    /\ pc = "classify"
    /\ color' = get_security_color(dep)
    /\ pc' = "classified"
    /\ UNCHANGED <<SKIP_SYSTEM_LIBS, ENGINE, json_file, data, dot, dependencies, idx,
                   count, skipped, dep, gv_file, image_file, render_calls, out, status>>

NextColor == Classify

SpecColor == InitColor /\ [][NextColor]_vars

(***************************************************************************)
(* Vocabulary of the properties, stated from the document alone            *)
(***************************************************************************)
Range(f) == {f[k] : k \in DOMAIN f}

\* the build pass has run to its end
BuildFinished == "built" \in Range(out)

\* the build pass is between two iterations, or has run to its end
InOrAfterBuild == pc = "build" \/ BuildFinished

\* the list the build pass iterates over
Listed == dependencies.v

\* an entry whose type is present and is "system"
IsSystemEntry(d) == "type" \in DOMAIN d /\ d.type = "system"

\* the entries among the first n that the filter drops / keeps
DroppedAmong(n) == {k \in 1..n : SKIP_SYSTEM_LIBS /\ IsSystemEntry(Listed[k])}
KeptAmong(n) == (1..n) \ DroppedAmong(n)

\* the fields of an entry after defaulting
EntryName(d) == IF "name" \in DOMAIN d THEN d.name ELSE "unknown"
EntryType(d) == IF "type" \in DOMAIN d THEN d.type ELSE "unknown"
EntryVersion(d) == IF "version" \in DOMAIN d THEN d.version ELSE "?"
EntryLabel(d) == <<EntryName(d), EntryVersion(d), "(" \o EntryType(d) \o ")">>

RenderFailed == "executable_not_found" \in Range(out) \/ "render_error" \in Range(out)
RenderSucceeded == "finished" \in Range(out)
LoadFailed == "file_not_found" \in Range(out) \/ "json_error" \in Range(out)

(***************************************************************************)
(* C1                                                                      *)
(***************************************************************************)
\* C1: between iterations of the build pass retained + skipped equals the number
\* of entries processed so far, and once the pass has finished it equals
\* len(dependencies), for either value of SKIP_SYSTEM_LIBS.
C1_CountersSum ==
    /\ pc = "build" => count + skipped = idx
    /\ BuildFinished => count + skipped = Len(Listed)

\* a finished pass over a list with a retained and a skipped entry
C1_Witness == BuildFinished /\ count >= 1 /\ skipped >= 1 /\ Len(Listed) = 2

(***************************************************************************)
(* C2                                                                      *)
(***************************************************************************)
\* C2: in the graph description the build pass produced, the number of nodes other
\* than the root equals retainedCount, the number of edges equals retainedCount,
\* and every edge originates at the root node, for all dependency lists.
C2_NodesAndEdgesMatchCount ==
    BuildFinished =>
        /\ Cardinality(NonRootNodeIds(dot)) = count
        /\ Len(Edges(dot)) = count
        /\ \A k \in DOMAIN Edges(dot) : Edges(dot)[k].tail = "ROOT"

(***************************************************************************)
(* C3                                                                      *)
(***************************************************************************)
HasFindings(d) == "cves" \in DOMAIN d /\ Len(d.cves) > 0

\* the color the contract gives a dependency, read off its first finding
ContractColor(d) ==
    IF ~HasFindings(d) THEN "lightgrey"
    ELSE IF "id" \notin DOMAIN d.cves[1] THEN "#FF6347"
    ELSE CASE d.cves[1].id = "SAFE" -> "#90EE90"
           [] d.cves[1].id = "NOT-CHECKED" -> "lightgrey"
           [] d.cves[1].id = "CHECK-ERROR" -> "#FFE4B5"
           [] OTHER -> "#FF6347"

\* C3: the color get_security_color returns is the one the contract gives for the
\* first finding's id (neutral when there is no finding), and every dependency
\* whose `cves` starts with the same finding gets the same color.
C3_ColorByFirstFinding ==
    pc = "classified" =>
        /\ color = ContractColor(dep)
        /\ \A d \in ColorDeps :
              (HasFindings(dep) /\ HasFindings(d) /\ d.cves[1] = dep.cves[1])
                  => get_security_color(d) = color

\* a classified dependency whose first finding is SAFE and whose second is a real CVE
C3_Witness ==
    /\ pc = "classified"
    /\ HasFindings(dep)
    /\ Len(dep.cves) = 2
    /\ dep.cves[1] = [t |-> "dict", id |-> "SAFE"]
    /\ dep.cves[2] = [t |-> "dict", id |-> "CVE-2023-1234"]
    /\ color = "#90EE90"

(***************************************************************************)
(* C4                                                                      *)
(***************************************************************************)
\* C4: the entries the build pass has skipped are exactly the processed entries
\* whose type is "system" when SKIP_SYSTEM_LIBS is true and none when it is false;
\* a skipped entry adds no node statement and no edge, an entry without a type
\* is never skipped.
C4_SkipsExactlySystem ==
    InOrAfterBuild =>
        /\ skipped = Cardinality(DroppedAmong(idx))
        /\ count = Cardinality(KeptAmong(idx))
        /\ Len(dot.nodes) = 1 + Cardinality(KeptAmong(idx))
        /\ Len(dot.edges) = Cardinality(KeptAmong(idx))
        /\ ~SKIP_SYSTEM_LIBS => skipped = 0

\* a finished pass with the flag set over a system entry and an entry without a type
C4_Witness ==
    /\ BuildFinished
    /\ SKIP_SYSTEM_LIBS
    /\ skipped = 1
    /\ count = 1
    /\ \E k \in DOMAIN Listed : "type" \notin DOMAIN Listed[k]

C6_EngineUsed ==
    \A k \in DOMAIN render_calls :
        /\ render_calls[k].engine =
              IF Cardinality(KeptAmong(Len(Listed))) > SwitchThreshold /\ ENGINE = "dot"
              THEN "sfdp" ELSE ENGINE
        /\ render_calls[k].nodes = gv_file.nodes
        /\ render_calls[k].edges = gv_file.edges

(***************************************************************************)
(* C7                                                                      *)
(***************************************************************************)
\* C7: when the input path is missing or its content cannot be parsed, the run
\* reports it and halts: no graph is constructed, neither output file is written
\* and the renderer is never invoked.
C7_LoadFailureHalts ==
    json_file.state \in {"missing", "unparsable"} =>
        /\ pc \in {"start", "done"}
        /\ pc = "done" => LoadFailed
        /\ dot = NoDot
        /\ gv_file = NoFile
        /\ ~image_file.written
        /\ render_calls = <<>>

\* a run on an unparsable file that has ended
C7_Witness == json_file.state = "unparsable" /\ pc = "done" /\ "json_error" \in Range(out)

(***************************************************************************)
(* C8                                                                      *)
(***************************************************************************)
\* C8: when the renderer was invoked and produced no image (engine executable not
\* found, or any other failure), the run has reported the failure and ended normally
\* with status 0 after that single invocation, dependency_graph.gv is in place and
\* no image is reported; the renderer is never invoked twice, and the image is
\* reported as created only when rendering succeeded and wrote it.
C8_RenderFailureContained ==
    /\ (render_calls # <<>> /\ ~image_file.written) =>
          /\ pc = "done"
          /\ status = "exit0"
          /\ RenderFailed
          /\ gv_file.written
          /\ "file_created" \notin Range(out)
    /\ Len(render_calls) <= 1
    /\ "file_created" \in Range(out) => (image_file.written /\ ~RenderFailed)

\* a run whose render failed for a reason other than a missing executable
C8_Witness == "render_error" \in Range(out) /\ pc = "done" /\ count >= 1

(***************************************************************************)
(* C9                                                                      *)
(***************************************************************************)
\* C9: after the build pass every retained dependency has a node whose id is its
\* (defaulted) name and whose label is the three lines name, version, (type) after
\* defaulting; the root node is labeled with project_name, or "Project" when it is
\* absent; an absent `dependencies` is an empty list.
C9_LabelsAfterDefaulting ==
    BuildFinished =>
        /\ \A k \in KeptAmong(Len(Listed)) :
              /\ EntryName(Listed[k]) \in NodeIds(dot)
              /\ NodeAttr(dot, EntryName(Listed[k]), "label") = EntryLabel(Listed[k])
        /\ NodeAttr(dot, "ROOT", "label") =
              <<IF "project_name" \in DOMAIN data THEN data.project_name ELSE "Project">>
        /\ "dependencies" \notin DOMAIN data => Listed = <<>>

(***************************************************************************)
(* C10                                                                     *)
(***************************************************************************)
\* C10: every run that has ended has ended in one of three ways: load failure with
\* no output, render failure with the textual artifact only, or success with the
\* textual artifact and the image.
C10_ThreeOutcomes ==
    status # "running" =>
        \/ LoadFailed /\ ~gv_file.written /\ ~image_file.written
        \/ RenderFailed /\ gv_file.written /\ ~image_file.written
        \/ RenderSucceeded /\ gv_file.written /\ image_file.written

====
